---- MODULE Spec2Model ----
(***************************************************************************)
(* line_calc: an interactive calculator.  main reads a line, answer runs   *)
(* preconv -> go/parser.ParseExpr -> evalExpr -> formatting, and the       *)
(* result or the error is printed; keyListener runs answer on the line     *)
(* being typed.  Numbers are math/big values: *big.Float with a 128 bit    *)
(* mantissa, *big.Int for the integer-only operators and for display.      *)
(*                                                                         *)
(* Text is a sequence of one-character strings.  A natural number is a     *)
(* little-endian sequence of limbs in base 256 without leading zero limbs  *)
(* (math/big's nat with an 8 bit Word), <<>> being 0.                      *)
(***************************************************************************)
EXTENDS Integers, Sequences, FiniteSets, TLC

(***************************************************************************)
(* math/big nat: unsigned arbitrary-precision arithmetic.                  *)
(***************************************************************************)
W == 4 + 4
B == 16 * 16

SetMax(S) == CHOOSE x \in S : \A y \in S : y <= x
SetMin(S) == CHOOSE x \in S : \A y \in S : x <= y

Pow2(k) == 2 ^ k

NNorm(a) ==
  LET nz == {i \in 1..Len(a) : a[i] # 0}
  IN  IF nz = {} THEN <<>> ELSE SubSeq(a, 1, SetMax(nz))

RECURSIVE NOfInt(_)
NOfInt(n) == IF n = 0 THEN <<>> ELSE <<n % B>> \o NOfInt(n \div B)

\* the value of a nat known to be below 2^30
NToInt(a) ==
  LET L(i) == IF i <= Len(a) THEN a[i] ELSE 0
  IN  L(1) + B * L(2) + B * B * L(3) + B * B * B * L(4)

NFitsInt(a) == Len(a) <= 3

NCmp(a, b) ==
  IF Len(a) # Len(b) THEN (IF Len(a) < Len(b) THEN -1 ELSE 1)
  ELSE LET d == {i \in 1..Len(a) : a[i] # b[i]}
       IN  IF d = {} THEN 0
           ELSE IF a[SetMax(d)] < b[SetMax(d)] THEN -1 ELSE 1

RECURSIVE NAddFrom(_, _, _, _)
NAddFrom(a, b, i, c) ==
  IF i > Len(a) /\ i > Len(b) THEN (IF c = 0 THEN <<>> ELSE <<c>>)
  ELSE LET s == (IF i <= Len(a) THEN a[i] ELSE 0)
                + (IF i <= Len(b) THEN b[i] ELSE 0) + c
       IN  <<s % B>> \o NAddFrom(a, b, i + 1, s \div B)

NAdd(a, b) == NAddFrom(a, b, 1, 0)

RECURSIVE NSubFrom(_, _, _, _)
NSubFrom(a, b, i, c) ==
  IF i > Len(a) THEN <<>>
  ELSE LET s == a[i] - (IF i <= Len(b) THEN b[i] ELSE 0) - c
       IN  <<(s + B) % B>> \o NSubFrom(a, b, i + 1, IF s < 0 THEN 1 ELSE 0)

\* a - b for a >= b
NSub(a, b) == NNorm(NSubFrom(a, b, 1, 0))

RECURSIVE NMulSmallFrom(_, _, _, _)
NMulSmallFrom(a, d, i, c) ==
  IF i > Len(a) THEN NOfInt(c)
  ELSE LET s == a[i] * d + c
       IN  <<s % B>> \o NMulSmallFrom(a, d, i + 1, s \div B)

\* a * d for a machine-sized d < 2^22
NMulSmall(a, d) == IF d = 0 THEN <<>> ELSE NMulSmallFrom(a, d, 1, 0)

NShlLimbs(a, k) == IF a = <<>> THEN <<>> ELSE [i \in 1..k |-> 0] \o a

RECURSIVE NMulFrom(_, _, _)
NMulFrom(a, b, i) ==
  IF i > Len(b) THEN <<>>
  ELSE NAdd(NShlLimbs(NMulSmall(a, b[i]), i - 1), NMulFrom(a, b, i + 1))

NMul(a, b) == IF a = <<>> \/ b = <<>> THEN <<>> ELSE NMulFrom(a, b, 1)

\* a << n
NShl(a, n) == NShlLimbs(NMulSmall(a, Pow2(n % W)), n \div W)

\* a >> n
NShr(a, n) ==
  LET k == n \div W
      s == n % W
      m == Len(a) - k
      L(i) == IF i <= Len(a) THEN a[i] ELSE 0
  IN  IF m <= 0 THEN <<>>
      ELSE NNorm([i \in 1..m |->
                   (L(i + k) \div Pow2(s)) + (L(i + k + 1) % Pow2(s)) * Pow2(W - s)])

BitLenSmall(x) == IF x = 0 THEN 0 ELSE SetMin({k \in 1..W : x < Pow2(k)})

NBitLen(a) == IF a = <<>> THEN 0 ELSE W * (Len(a) - 1) + BitLenSmall(a[Len(a)])

\* bit i of a, i counted from 0
NBit(a, i) ==
  IF i \div W + 1 > Len(a) THEN 0 ELSE (a[i \div W + 1] \div Pow2(i % W)) % 2

\* the number of trailing zero bits of a # 0
NTrailingZeros(a) ==
  LET j == SetMin({i \in 1..Len(a) : a[i] # 0})
  IN  W * (j - 1) + SetMin({k \in 0..(W - 1) : (a[j] \div Pow2(k)) % 2 = 1})

Reverse(s) == [i \in 1..Len(s) |-> s[Len(s) + 1 - i]]

\* short division from the most significant limb: the quotient's limbs, most
\* significant first, and the remainder
RECURSIVE NDivSmallFrom(_, _, _, _)
NDivSmallFrom(a, d, i, r) ==
  IF i = 0 THEN [q |-> <<>>, r |-> r]
  ELSE LET t == r * B + a[i]
           rest == NDivSmallFrom(a, d, i - 1, t % d)
       IN  [q |-> <<t \div d>> \o rest.q, r |-> rest.r]

\* quotient and remainder of a by a machine-sized d, 0 < d < 2^22
NDivSmall(a, d) ==
  LET x == NDivSmallFrom(a, d, Len(a), 0) IN [q |-> NNorm(Reverse(x.q)), r |-> x.r]

\* the largest digit d in lo..hi with d * b <= r (lo * b <= r is known)
RECURSIVE QuoDigit(_, _, _, _)
QuoDigit(r, b, lo, hi) ==
  IF lo = hi THEN lo
  ELSE LET mid == (lo + hi + 1) \div 2
       IN  IF NCmp(NMulSmall(b, mid), r) <= 0
           THEN QuoDigit(r, b, mid, hi) ELSE QuoDigit(r, b, lo, mid - 1)

RECURSIVE NDivFrom(_, _, _, _)
NDivFrom(a, b, i, r) ==
  IF i = 0 THEN [q |-> <<>>, r |-> r]
  ELSE LET t == NNorm(<<a[i]>> \o r)
           d == QuoDigit(t, b, 0, B - 1)
           rest == NDivFrom(a, b, i - 1, NSub(t, NMulSmall(b, d)))
       IN  [q |-> <<d>> \o rest.q, r |-> rest.r]

\* quotient and remainder of a by b # 0 (nat.div)
NDivMod(a, b) ==
  LET x == NDivFrom(a, b, Len(a), <<>>) IN [q |-> NNorm(Reverse(x.q)), r |-> x.r]

AndLimb(x, y) ==
  LET T(k) == Pow2(k) * (((x \div Pow2(k)) % 2) * ((y \div Pow2(k)) % 2))
  IN  T(0) + T(1) + T(2) + T(3) + T(4) + T(5) + T(6) + T(7)

NAnd(a, b) ==
  LET m == IF Len(a) < Len(b) THEN Len(a) ELSE Len(b)
  IN  NNorm([i \in 1..m |-> AndLimb(a[i], b[i])])

NOr(a, b) ==
  LET m == IF Len(a) < Len(b) THEN Len(b) ELSE Len(a)
      L(s, i) == IF i <= Len(s) THEN s[i] ELSE 0
  IN  [i \in 1..m |-> L(a, i) + L(b, i) - AndLimb(L(a, i), L(b, i))]

\* a &^ b
NAndNot(a, b) ==
  LET L(s, i) == IF i <= Len(s) THEN s[i] ELSE 0
  IN  NNorm([i \in 1..Len(a) |-> a[i] - AndLimb(a[i], L(b, i))])

NOne == <<1>>

RECURSIVE NExp(_, _)
NExp(a, n) ==
  IF n = 0 THEN NOne
  ELSE LET h == NExp(a, n \div 2)
           s == NMul(h, h)
       IN  IF n % 2 = 1 THEN NMul(s, a) ELSE s

(***************************************************************************)
(* Digits and text: nat.scan and Int.Text for the bases the program uses.  *)
(***************************************************************************)
Digits == {"0", "1", "2", "3", "4", "5", "6", "7", "8", "9"}
HexLower == {"a", "b", "c", "d", "e", "f"}
HexUpper == {"A", "B", "C", "D", "E", "F"}
HexChars == <<"0", "1", "2", "3", "4", "5", "6", "7", "8", "9",
              "a", "b", "c", "d", "e", "f">>
UpperHexChars == <<"A", "B", "C", "D", "E", "F">>

DigitOf(v) == HexChars[v + 1]

DigitVal(c) ==
  IF c \in HexUpper
  THEN 9 + (CHOOSE i \in 1..6 : UpperHexChars[i] = c)
  ELSE (CHOOSE i \in 1..16 : HexChars[i] = c) - 1

\* s without its leading "0" characters, keeping one digit
StripZeros(s) ==
  LET nz == {i \in 1..Len(s) : s[i] # "0"}
  IN  IF s = <<>> THEN <<"0">>
      ELSE IF nz = {} THEN <<"0">>
      ELSE SubSeq(s, SetMin(nz), Len(s))

LimbText(x, base) ==
  IF base = 16 THEN <<DigitOf(x \div 16), DigitOf(x % 16)>>
  ELSE [k \in 1..W |-> DigitOf((x \div Pow2(W - k)) % 2)]

RECURSIVE NTextFrom(_, _, _)
NTextFrom(a, base, i) ==
  IF i = 0 THEN <<>> ELSE LimbText(a[i], base) \o NTextFrom(a, base, i - 1)

DecChunk == 100 * 100

Dec4(r) == <<DigitOf(r \div 1000), DigitOf((r \div 100) % 10),
             DigitOf((r \div 10) % 10), DigitOf(r % 10)>>

RECURSIVE NDecFrom(_)
NDecFrom(a) ==
  IF a = <<>> THEN <<>>
  ELSE LET d == NDivSmall(a, DecChunk) IN NDecFrom(d.q) \o Dec4(d.r)

\* nat.utoa: the digits of a in base 2, 10 or 16
NText(a, base) ==
  StripZeros(IF base = 10 THEN NDecFrom(a) ELSE NTextFrom(a, base, Len(a)))

RECURSIVE ChunkVal(_, _, _, _)
ChunkVal(s, base, lo, hi) ==
  IF hi < lo THEN 0 ELSE ChunkVal(s, base, lo, hi - 1) * base + DigitVal(s[hi])

\* the value of the first n digits of s; like nat.scan, it collects a machine
\* word of digits (here four) before it touches the result
RECURSIVE NScanTo(_, _, _)
NScanTo(s, base, n) ==
  IF n = 0 THEN <<>>
  ELSE LET lo == IF n > 4 THEN n - 3 ELSE 1
       IN  NAdd(NMulSmall(NScanTo(s, base, lo - 1), base ^ (n - lo + 1)),
                NOfInt(ChunkVal(s, base, lo, n)))

\* nat.scan: the value of a digit string in the given base
NScan(s, base) == NNorm(NScanTo(s, base, Len(s)))

(***************************************************************************)
(* math/big Int: sign and magnitude.                                       *)
(***************************************************************************)
ZMake(neg, abs) == [neg |-> neg /\ abs # <<>>, abs |-> abs]

ZZero == ZMake(FALSE, <<>>)

ZOfInt(n) == IF n < 0 THEN ZMake(TRUE, NOfInt(0 - n)) ELSE ZMake(FALSE, NOfInt(n))

ZNeg(x) == ZMake(~x.neg, x.abs)

ZAbs(x) == ZMake(FALSE, x.abs)

ZSign(x) == IF x.abs = <<>> THEN 0 ELSE IF x.neg THEN -1 ELSE 1

ZBitLen(x) == NBitLen(x.abs)

ZAdd(x, y) ==
  IF x.neg = y.neg THEN ZMake(x.neg, NAdd(x.abs, y.abs))
  ELSE IF NCmp(x.abs, y.abs) >= 0 THEN ZMake(x.neg, NSub(x.abs, y.abs))
  ELSE ZMake(~x.neg, NSub(y.abs, x.abs))

ZSub(x, y) == ZAdd(x, ZNeg(y))

\* Int.Not: ^x
ZNot(x) ==
  IF x.neg THEN ZMake(FALSE, NSub(x.abs, NOne))
  ELSE ZMake(TRUE, NAdd(x.abs, NOne))

\* Int.QuoRem's remainder (truncated division), y # 0
ZRem(x, y) == ZMake(x.neg, NDivMod(x.abs, y.abs).r)

\* the remainder with the sign of the dividend, as Go's % on machine integers
ZModTruncated(x, y) == ZRem(x, y)

\* Int.Mod: Euclidean modulus, y # 0
ZMod(x, y) ==
  LET r == ZRem(x, y)
  IN  IF r.neg THEN (IF y.neg THEN ZSub(r, y) ELSE ZAdd(r, y)) ELSE r

ZAnd(x, y) ==
  IF x.neg = y.neg
  THEN IF x.neg
       THEN ZMake(TRUE, NAdd(NOr(NSub(x.abs, NOne), NSub(y.abs, NOne)), NOne))
       ELSE ZMake(FALSE, NAnd(x.abs, y.abs))
  ELSE LET p == IF x.neg THEN y ELSE x
           n == IF x.neg THEN x ELSE y
       IN  ZMake(FALSE, NAndNot(p.abs, NSub(n.abs, NOne)))

ZOr(x, y) ==
  IF x.neg = y.neg
  THEN IF x.neg
       THEN ZMake(TRUE, NAdd(NAnd(NSub(x.abs, NOne), NSub(y.abs, NOne)), NOne))
       ELSE ZMake(FALSE, NOr(x.abs, y.abs))
  ELSE LET p == IF x.neg THEN y ELSE x
           n == IF x.neg THEN x ELSE y
       IN  ZMake(TRUE, NAdd(NAndNot(NSub(n.abs, NOne), p.abs), NOne))

ZLsh(x, n) == ZMake(x.neg, NShl(x.abs, n))

ZRsh(x, n) ==
  IF x.neg THEN ZMake(TRUE, NAdd(NShr(NSub(x.abs, NOne), n), NOne))
  ELSE ZMake(FALSE, NShr(x.abs, n))

\* Int.Exp(x, y, nil) for a machine-sized y: 1 when y <= 0
ZExp(x, n) ==
  IF n <= 0 THEN ZOfInt(1) ELSE ZMake(x.neg /\ n % 2 = 1, NExp(x.abs, n))

\* Int.SetBit(0, i, 1)
ZBit(i) == ZMake(FALSE, NShl(NOne, i))

\* Int.Text
ZText(x, base) == (IF x.neg THEN <<"-">> ELSE <<>>) \o NText(x.abs, base)

(***************************************************************************)
(* math/big Float.  A finite value is (-1)^neg * mant * 2^exp with mant    *)
(* odd, or mant = 0 and exp = 0; every operation computes the exact result *)
(* and rounds it to the precision, to nearest even.  "nan" stands for the  *)
(* ErrNaN panic of an operation whose result would be a NaN.               *)
(***************************************************************************)
precision == 128

FFinite(neg, mant, exp) == [form |-> "finite", neg |-> neg, mant |-> mant, exp |-> exp]
FInf(neg) == [form |-> "inf", neg |-> neg, mant |-> <<>>, exp |-> 0]
FNaN == [form |-> "nan", neg |-> FALSE, mant |-> <<>>, exp |-> 0]
FZero(neg) == FFinite(neg, <<>>, 0)

FIsZero(x) == x.form = "finite" /\ x.mant = <<>>

\* mant * 2^exp with the trailing zero bits of mant moved into exp
FCanon(neg, m, e) ==
  IF m = <<>> THEN FZero(neg)
  ELSE LET tz == NTrailingZeros(m) IN FFinite(neg, NShr(m, tz), e + tz)

\* Float.round: m * 2^e rounded to prec bits, big.ToNearestEven
FRound(neg, m, e, prec) ==
  LET len == NBitLen(m)
      k == len - prec
      q == NShr(m, k)
      low == NSub(m, NShl(q, k))
      c == NCmp(low, NShl(NOne, k - 1))
      up == c > 0 \/ (c = 0 /\ NBit(q, 0) = 1)
  IN  IF len <= prec THEN FCanon(neg, m, e)
      ELSE FCanon(neg, IF up THEN NAdd(q, NOne) ELSE q, e + k)

\* Float.SetInt on a Float of the working precision
FSetInt(z) == FRound(z.neg, z.abs, 0, precision)

\* Float.Neg
FNeg(x) == [x EXCEPT !.neg = ~x.neg]

\* the exact sum of two finite nonzero values, rounded
FAddFinite(x, y) ==
  LET e == IF x.exp < y.exp THEN x.exp ELSE y.exp
      s == ZAdd(ZMake(x.neg, NShl(x.mant, x.exp - e)),
                ZMake(y.neg, NShl(y.mant, y.exp - e)))
  IN  FRound(s.neg, s.abs, e, precision)

\* Float.Add
FAdd(x, y) ==
  IF x.form = "inf" /\ y.form = "inf" /\ x.neg # y.neg THEN FNaN
  ELSE IF x.form = "inf" THEN x
  ELSE IF y.form = "inf" THEN y
  ELSE IF FIsZero(x) /\ FIsZero(y) THEN FZero(x.neg /\ y.neg)
  ELSE IF FIsZero(y) THEN x
  ELSE IF FIsZero(x) THEN y
  ELSE FAddFinite(x, y)

\* Float.Sub
FSub(x, y) ==
  IF x.form = "inf" /\ y.form = "inf" /\ x.neg = y.neg THEN FNaN
  ELSE FAdd(x, FNeg(y))

\* Float.Mul
FMul(x, y) ==
  IF x.form = "finite" /\ y.form = "finite"
  THEN IF FIsZero(x) \/ FIsZero(y) THEN FZero(x.neg # y.neg)
       ELSE FRound(x.neg # y.neg, NMul(x.mant, y.mant), x.exp + y.exp, precision)
  ELSE IF FIsZero(x) \/ FIsZero(y) THEN FNaN
  ELSE FInf(x.neg # y.neg)

\* the quotient of two finite nonzero values: the division is carried two bits
\* past the precision and the remainder is the sticky bit below them
FQuoFinite(x, y, prec) ==
  LET need == prec + 2 + NBitLen(y.mant) - NBitLen(x.mant)
      s == IF need > 0 THEN need ELSE 0
      d == NDivMod(NShl(x.mant, s), y.mant)
      m == NAdd(NShl(d.q, 1), IF d.r = <<>> THEN <<>> ELSE NOne)
  IN  FRound(x.neg # y.neg, m, x.exp - y.exp - s - 1, prec)

\* Float.Quo
FQuo(x, y) ==
  IF x.form = "finite" /\ y.form = "finite"
  THEN IF FIsZero(x) /\ FIsZero(y) THEN FNaN
       ELSE IF FIsZero(x) THEN FZero(x.neg # y.neg)
       ELSE IF FIsZero(y) THEN FInf(x.neg # y.neg)
       ELSE FQuoFinite(x, y, precision)
  ELSE IF x.form = "inf" /\ y.form = "inf" THEN FNaN
  ELSE IF y.form = "inf" THEN FZero(x.neg # y.neg)
  ELSE FInf(x.neg # y.neg)

\* Float.IsInt
FIsInt(x) == x.form = "finite" /\ x.exp >= 0

Nil == [nil |-> TRUE]

\* Float.Int(nil): the value truncated toward zero, nil for an infinity
FInt(x) ==
  IF x.form # "finite" THEN Nil
  ELSE IF x.exp >= 0 THEN ZMake(x.neg, NShl(x.mant, x.exp))
  ELSE ZMake(x.neg, NShr(x.mant, 0 - x.exp))

(***************************************************************************)
(* The tables, and preconv.                                                *)
(***************************************************************************)
Kilo == 1000
Kibi == 1024

\* var units: the scale of each suffix, a divisor when negative.  The values
\* that do not fit a machine word here are kept as magnitude and sign.
units0 ==
  [K |-> ZMake(FALSE, NOfInt(Kibi)),
   M |-> ZMake(FALSE, NExp(NOfInt(Kibi), 2)),
   G |-> ZMake(FALSE, NExp(NOfInt(Kibi), 3)),
   T |-> ZMake(FALSE, NExp(NOfInt(Kibi), 4)),
   k |-> ZMake(FALSE, NOfInt(Kilo)),
   m |-> ZMake(FALSE, NExp(NOfInt(Kilo), 2)),
   g |-> ZMake(FALSE, NExp(NOfInt(Kilo), 3)),
   t |-> ZMake(FALSE, NExp(NOfInt(Kilo), 4)),
   u |-> ZMake(TRUE, NExp(NOfInt(Kilo), 2)),
   n |-> ZMake(TRUE, NExp(NOfInt(Kilo), 3))]

UnitNames == DOMAIN units0

\* an identifier table with an entry: x = 1
tblIdentOne == [name \in {<<"x">>} |-> FSetInt(ZOfInt(1))]

\* var tblIdent = map[string]*big.Float{}: no name is ever entered
tblIdent0 == [name \in {} |-> FZero(FALSE)]

PiDigits == <<"3", ".", "1", "4", "1", "5", "9", "2", "6", "5", "3", "5", "8", "9", "7", "9", "3", "2", "3", "8", "4", "6", "2", "6", "4", "3", "3", "8", "3", "2", "7", "9", "5", "0">>

\* whether s holds the text old at position i
StartsAt(s, i, old) ==
  /\ i + Len(old) - 1 <= Len(s)
  /\ \A j \in 1..Len(old) : s[i + j - 1] = old[j]

\* the pairs of strings.NewReplacer, in argument order
ReplacerPairs ==
  << [old |-> <<"~">>, new |-> <<"!">>],
     [old |-> <<"*", "*">>, new |-> <<"^">>],
     [old |-> <<"p", "i">>, new |-> PiDigits] >>

ReplacerMatch(s, i) == {p \in 1..Len(ReplacerPairs) : StartsAt(s, i, ReplacerPairs[p].old)}

\* Replacer.Replace from position i: the text up to the next match is copied,
\* the match replaced, and the scan goes on behind it
RECURSIVE ReplaceFrom(_, _)
ReplaceFrom(s, i) ==
  LET hits == {j \in i..Len(s) : ReplacerMatch(s, j) # {}}
  IN  IF hits = {} THEN SubSeq(s, i, Len(s))
      ELSE LET j == SetMin(hits)
               p == ReplacerPairs[SetMin(ReplacerMatch(s, j))]
           IN  SubSeq(s, i, j - 1) \o p.new \o ReplaceFrom(s, j + Len(p.old))

\* the class [)0-9a-fA-F ] of the pattern
UnitClass == {")", " "} \cup Digits \cup HexLower \cup HexUpper

\* the alternation (K|M|...) built from the keys of units
UnitChars == {"K", "M", "G", "T", "k", "m", "g", "t", "u", "n"}

UnitMatch(s, j) == j + 1 <= Len(s) /\ s[j] \in UnitClass /\ s[j + 1] \in UnitChars

\* re.ReplaceAllString(s, "$1.($2)") from position i: leftmost matches that do
\* not overlap
RECURSIVE ExpandFrom(_, _)
ExpandFrom(s, i) ==
  LET hits == {j \in i..Len(s) : UnitMatch(s, j)}
  IN  IF hits = {} THEN SubSeq(s, i, Len(s))
      ELSE LET j == SetMin(hits)
           IN  SubSeq(s, i, j) \o <<".", "(", s[j + 1], ")">> \o ExpandFrom(s, j + 2)

preconv(line) == ExpandFrom(ReplaceFrom(line, 1), 1)

(***************************************************************************)
(* go/scanner and go/parser, as far as parser.ParseExpr is used: the       *)
(* expression grammar over identifiers, number literals, operators,        *)
(* parentheses, calls, selectors and type assertions.  Input outside of    *)
(* that (keywords, exponents, binary and octal prefixes, brackets, quotes, *)
(* comments, '=') is reported as "unmodelled", never guessed at.           *)
(***************************************************************************)
Letters ==
  {"a", "b", "c", "d", "e", "f", "g", "h", "i", "j", "k", "l", "m"}
  \cup {"n", "o", "p", "q", "r", "s", "t", "u", "v", "w", "x", "y", "z"}
  \cup {"A", "B", "C", "D", "E", "F", "G", "H", "I", "J", "K", "L", "M"}
  \cup {"N", "O", "P", "Q", "R", "S", "T", "U", "V", "W", "X", "Y", "Z"} \cup {"_"}

HexDigits == Digits \cup HexLower \cup HexUpper

Keywords ==
  { <<"b", "r", "e", "a", "k">>, <<"c", "a", "s", "e">>,
    <<"c", "h", "a", "n">>, <<"c", "o", "n", "s", "t">>,
    <<"c", "o", "n", "t", "i", "n", "u", "e">>,
    <<"d", "e", "f", "a", "u", "l", "t">>, <<"d", "e", "f", "e", "r">>,
    <<"e", "l", "s", "e">>,
    <<"f", "a", "l", "l", "t", "h", "r", "o", "u", "g", "h">>,
    <<"f", "o", "r">>, <<"f", "u", "n", "c">>, <<"g", "o">>,
    <<"g", "o", "t", "o">>, <<"i", "f">>, <<"i", "m", "p", "o", "r", "t">>,
    <<"i", "n", "t", "e", "r", "f", "a", "c", "e">>, <<"m", "a", "p">>,
    <<"p", "a", "c", "k", "a", "g", "e">>, <<"r", "a", "n", "g", "e">>,
    <<"r", "e", "t", "u", "r", "n">>, <<"s", "e", "l", "e", "c", "t">>,
    <<"s", "t", "r", "u", "c", "t">>, <<"s", "w", "i", "t", "c", "h">>,
    <<"t", "y", "p", "e">>, <<"v", "a", "r">> }

\* the character at position i, "" behind the end
At(s, i) == IF i >= 1 /\ i <= Len(s) THEN s[i] ELSE ""

\* the first position from i on whose character is not in S
SkipWhile(s, i, S) == SetMin({j \in i..(Len(s) + 1) : j = Len(s) + 1 \/ s[j] \notin S})

Tok(tok, lit) == [tok |-> tok, lit |-> lit]

\* Scanner.scanNumber at position i (a digit, or a '.' before a digit), as
\* go/scanner reads numbers since Go 1.13: a '.' after hexadecimal digits
\* belongs to the literal and a hexadecimal mantissa needs a 'p' exponent
scanNumber(s, i) ==
  LET isHex == At(s, i) = "0" /\ At(s, i + 1) \in {"x", "X"}
      start == IF isHex THEN i + 2 ELSE i
      dset == IF isHex THEN HexDigits ELSE Digits
      intEnd == IF At(s, i) = "." THEN i ELSE SkipWhile(s, start, dset)
      hasFrac == At(s, intEnd) = "."
      fracEnd == IF hasFrac THEN SkipWhile(s, intEnd + 1, dset) ELSE intEnd
      ndigits == (intEnd - start) + (IF hasFrac THEN fracEnd - intEnd - 1 ELSE 0)
      legacyOctal == ~isHex /\ At(s, i) = "0" /\ intEnd > i + 1
      invalid == legacyOctal /\ ~hasFrac
                 /\ \E j \in i..(intEnd - 1) : s[j] \in {"8", "9"}
      nextc == At(s, fracEnd)
      hexNoExp == isHex /\ hasFrac /\ nextc \notin {"p", "P"}
  IN  [tok |-> IF hasFrac THEN "FLOAT" ELSE "INT",
       lit |-> SubSeq(s, i, fracEnd - 1),
       next |-> fracEnd,
       err |-> ndigits = 0 \/ invalid \/ hexNoExp,
       unmodelled |-> \/ At(s, i) = "0" /\ At(s, i + 1) \in {"b", "B", "o", "O"}
                      \/ nextc \in {"e", "E", "p", "P", "i", "_"}]

OneCharOps == {"+", "-", "*", "/", "%", "^", "<", ">", "!", "&", "|", "(", ")", ".", ","}

\* the operators of two characters the scanner joins, "" when c1 c2 is none
TwoCharOp(c1, c2) ==
  CASE c1 = "<" /\ c2 = "<" -> "<<"
    [] c1 = ">" /\ c2 = ">" -> ">>"
    [] c1 = "&" /\ c2 = "&" -> "&&"
    [] c1 = "|" /\ c2 = "|" -> "||"
    [] c1 = "&" /\ c2 = "^" -> "&^"
    [] c1 = "<" /\ c2 = "-" -> "<-"
    [] c1 = "+" /\ c2 = "+" -> "++"
    [] c1 = "-" /\ c2 = "-" -> "--"
    [] OTHER -> ""

ScanResult(toks, err, unmodelled) == [toks |-> toks, err |-> err, unmodelled |-> unmodelled]

\* Scanner.Scan, repeated to the end of the text
RECURSIVE ScanFrom(_, _)
ScanFrom(s, i0) ==
  LET i == SkipWhile(s, i0, {" "})
      c == At(s, i)
  IN  IF i > Len(s) THEN ScanResult(<<Tok("EOF", <<>>)>>, FALSE, FALSE)
      ELSE IF c \in Letters
      THEN LET j == SkipWhile(s, i, Letters \cup Digits)
               name == SubSeq(s, i, j - 1)
               rest == ScanFrom(s, j)
           IN  ScanResult(<<Tok("IDENT", name)>> \o rest.toks, rest.err,
                          rest.unmodelled \/ name \in Keywords)
      ELSE IF c \in Digits \/ (c = "." /\ At(s, i + 1) \in Digits)
      THEN LET n == scanNumber(s, i)
               rest == ScanFrom(s, n.next)
           IN  ScanResult(<<Tok(n.tok, n.lit)>> \o rest.toks, n.err \/ rest.err,
                          n.unmodelled \/ rest.unmodelled)
      ELSE IF c \notin OneCharOps
              \/ (c = "/" /\ At(s, i + 1) \in {"/", "*"})
              \/ (c = "." /\ At(s, i + 1) = "." /\ At(s, i + 2) = ".")
              \/ At(s, i + 1) = "="
      THEN ScanResult(<<Tok("EOF", <<>>)>>, FALSE, TRUE)
      ELSE LET two == TwoCharOp(c, At(s, i + 1))
               rest == ScanFrom(s, IF two = "" THEN i + 1 ELSE i + 2)
           IN  ScanResult(<<Tok(IF two = "" THEN c ELSE two, <<>>)>> \o rest.toks,
                          rest.err, rest.unmodelled)

\* Token.Precedence
Precedence(op) ==
  CASE op = "||" -> 1
    [] op = "&&" -> 2
    [] op \in {"<", ">"} -> 3
    [] op \in {"+", "-", "|", "^"} -> 4
    [] op \in {"*", "/", "%", "<<", ">>", "&", "&^"} -> 5
    [] OTHER -> 0

BasicLit(kind, value) == [t |-> "BasicLit", kind |-> kind, value |-> value]
Ident(name) == [t |-> "Ident", name |-> name]
ParenExpr(x) == [t |-> "ParenExpr", X |-> x]
UnaryExpr(op, x) == [t |-> "UnaryExpr", op |-> op, X |-> x]
BinaryExpr(op, x, y) == [t |-> "BinaryExpr", op |-> op, X |-> x, Y |-> y]
CallExpr(fun, args) == [t |-> "CallExpr", Fun |-> fun, Args |-> args]
TypeAssertExpr(x, type) == [t |-> "TypeAssertExpr", X |-> x, Type |-> type]
SelectorExpr(x, sel) == [t |-> "SelectorExpr", X |-> x, Sel |-> sel]
StarExpr(x) == [t |-> "StarExpr", X |-> x]

\* a parsed node and the position of the next token, or the failure
Parsed(node, pos) == [ok |-> TRUE, node |-> node, pos |-> pos]
ParseFail == [ok |-> FALSE, node |-> Nil, pos |-> 0]

RECURSIVE parseBinaryExpr(_, _, _)
RECURSIVE binaryLoop(_, _, _)
RECURSIVE parseUnaryExpr(_, _)
RECURSIVE primaryLoop(_, _)
RECURSIVE parseOperand(_, _)
RECURSIVE parseArgs(_, _, _)
RECURSIVE parseType(_, _)

parseExpr(toks, pos) == parseBinaryExpr(toks, pos, 1)

parseBinaryExpr(toks, pos, prec1) ==
  LET x == parseUnaryExpr(toks, pos)
  IN  IF ~x.ok THEN ParseFail ELSE binaryLoop(toks, x, prec1)

binaryLoop(toks, x, prec1) ==
  LET op == toks[x.pos].tok
      y == parseBinaryExpr(toks, x.pos + 1, Precedence(op) + 1)
  IN  IF Precedence(op) < prec1 THEN x
      ELSE IF ~y.ok THEN ParseFail
      ELSE binaryLoop(toks, Parsed(BinaryExpr(op, x.node, y.node), y.pos), prec1)

parsePrimaryExpr(toks, pos) ==
  LET x == parseOperand(toks, pos)
  IN  IF ~x.ok THEN ParseFail ELSE primaryLoop(toks, x)

parseUnaryExpr(toks, pos) ==
  LET op == toks[pos].tok
      x == parseUnaryExpr(toks, pos + 1)
  IN  IF op \in {"+", "-", "!", "^", "&", "<-"}
      THEN IF ~x.ok THEN ParseFail ELSE Parsed(UnaryExpr(op, x.node), x.pos)
      ELSE IF op = "*"
      THEN IF ~x.ok THEN ParseFail ELSE Parsed(StarExpr(x.node), x.pos)
      ELSE parsePrimaryExpr(toks, pos)

primaryLoop(toks, x) ==
  LET tok == toks[x.pos].tok
      after == toks[x.pos + 1]
      typ == parseType(toks, x.pos + 2)
      args == parseArgs(toks, x.pos + 1, <<>>)
  IN  IF tok = "."
      THEN IF after.tok = "IDENT"
           THEN primaryLoop(toks, Parsed(SelectorExpr(x.node, Ident(after.lit)), x.pos + 2))
           ELSE IF after.tok = "(" /\ typ.ok /\ toks[typ.pos].tok = ")"
           THEN primaryLoop(toks, Parsed(TypeAssertExpr(x.node, typ.node), typ.pos + 1))
           ELSE ParseFail
      ELSE IF tok = "("
      THEN IF ~args.ok THEN ParseFail
           ELSE primaryLoop(toks, Parsed(CallExpr(x.node, args.node), args.pos))
      ELSE x

parseArgs(toks, pos, acc) ==
  LET e == parseExpr(toks, pos)
  IN  IF toks[pos].tok = ")" THEN Parsed(acc, pos + 1)
      ELSE IF ~e.ok THEN ParseFail
      ELSE IF toks[e.pos].tok = "," THEN parseArgs(toks, e.pos + 1, Append(acc, e.node))
      ELSE IF toks[e.pos].tok = ")" THEN Parsed(Append(acc, e.node), e.pos + 1)
      ELSE ParseFail

parseType(toks, pos) ==
  LET tok == toks[pos]
      inner == parseType(toks, pos + 1)
  IN  IF tok.tok = "IDENT"
      THEN IF toks[pos + 1].tok = "." /\ toks[pos + 2].tok = "IDENT"
           THEN Parsed(SelectorExpr(Ident(tok.lit), Ident(toks[pos + 2].lit)), pos + 3)
           ELSE Parsed(Ident(tok.lit), pos + 1)
      ELSE IF tok.tok = "("
      THEN IF inner.ok /\ toks[inner.pos].tok = ")"
           THEN Parsed(ParenExpr(inner.node), inner.pos + 1) ELSE ParseFail
      ELSE IF tok.tok = "*"
      THEN IF inner.ok THEN Parsed(StarExpr(inner.node), inner.pos) ELSE ParseFail
      ELSE ParseFail

parseOperand(toks, pos) ==
  LET tok == toks[pos]
      e == parseExpr(toks, pos + 1)
  IN  IF tok.tok = "IDENT" THEN Parsed(Ident(tok.lit), pos + 1)
      ELSE IF tok.tok \in {"INT", "FLOAT"} THEN Parsed(BasicLit(tok.tok, tok.lit), pos + 1)
      ELSE IF tok.tok = "("
      THEN IF e.ok /\ toks[e.pos].tok = ")"
           THEN Parsed(ParenExpr(e.node), e.pos + 1) ELSE ParseFail
      ELSE ParseFail

\* parser.ParseExpr: the tree, or the error when the scanner or the parser
\* reports one or tokens are left over
ParseExpr(text) ==
  LET sc == ScanFrom(text, 1)
      r == parseExpr(sc.toks, 1)
  IN  IF sc.unmodelled THEN [kind |-> "unmodelled", tree |-> Nil]
      ELSE IF sc.err THEN [kind |-> "err", tree |-> Nil]
      ELSE IF ~r.ok THEN [kind |-> "err", tree |-> Nil]
      ELSE IF sc.toks[r.pos].tok # "EOF" THEN [kind |-> "err", tree |-> Nil]
      ELSE [kind |-> "ok", tree |-> r.node]

(***************************************************************************)
(* The evaluator.  tbl is the pair of package-level maps the evaluation    *)
(* runs against, [tblIdent, units].  A *big.Float result is the value      *)
(* together with the cell it points to: Fresh for a value allocated during *)
(* this evaluation, or the name whose tblIdent entry it is.  Methods such  *)
(* as x.Add(x, y) write their result into x's cell.  An evaluation ends    *)
(* with a value, with an error, or with a panic; log lists the functions   *)
(* entered, in order.                                                      *)
(***************************************************************************)
\* a display limit one bit short
showmaxbitsShort == 300 - 1

showmaxbits == 300

\* the widest integer the model computes for a shift or a power; beyond it
\* the outcome is reported as "unmodelled"
MaxBits == 320

Fresh == <<>>

RVal(val, ref, tbl, log) ==
  [kind |-> "val", val |-> val, ref |-> ref, err |-> "", tbl |-> tbl, log |-> log]
RErr(msg, tbl, log) ==
  [kind |-> "err", val |-> FNaN, ref |-> Fresh, err |-> msg, tbl |-> tbl, log |-> log]
RPanic(msg, tbl, log) ==
  [kind |-> "panic", val |-> FNaN, ref |-> Fresh, err |-> msg, tbl |-> tbl, log |-> log]
RUnmodelled(tbl, log) ==
  [kind |-> "unmodelled", val |-> FNaN, ref |-> Fresh, err |-> "", tbl |-> tbl, log |-> log]

\* r with the entries of log put before its own
Logged(log, r) == [r EXCEPT !.log = log \o r.log]

\* the value a result points to, read when it is used
Deref(tbl, r) == IF r.ref = Fresh THEN r.val ELSE tbl.tblIdent[r.ref]

\* the table after v is written into the cell ref
Store(tbl, ref, v) == IF ref = Fresh THEN tbl ELSE [tbl EXCEPT !.tblIdent[ref] = v]

\* z written into x's cell and returned, or the ErrNaN panic
Assign(z, x, tbl, log) ==
  IF z.form = "nan" THEN RPanic("ErrNaN", tbl, log)
  ELSE RVal(z, x.ref, Store(tbl, x.ref, z), log)

operation1(op, x, tbl) ==
  LET xv == Deref(tbl, x)
      p == FInt(xv)
      log == << <<"operation1", op>> >>
  IN  CASE op = "+" -> RVal(xv, x.ref, tbl, log)
        [] op = "-" -> Assign(FNeg(xv), x, tbl, log)
        [] op = "!" -> IF p = Nil THEN RPanic("nil pointer dereference", tbl, log)
                       ELSE Assign(FSetInt(ZNot(p)), x, tbl, log)
        [] OTHER -> RErr("invalid unary", tbl, log)

\* uint(q.Int64()): the low 64 bits of q in two's complement
ShiftCount(q) ==
  LET low == NNorm(SubSeq(q.abs, 1, IF Len(q.abs) < 8 THEN Len(q.abs) ELSE 8))
  IN  IF q.neg /\ low # <<>> THEN NSub(NShl(NOne, 64), low) ELSE low

\* nat.shl allocates len(x) + s/64 words: a count of 2^51 or more asks for
\* more than the runtime's largest allocation and make panics
ShlPanics(count) == NBitLen(count) > 51

\* p.Lsh(p, uint(q.Int64()))
Lsh(p, q) ==
  LET count == ShiftCount(q)
  IN  IF p.abs = <<>> \/ count = <<>> THEN [kind |-> "val", val |-> p]
      ELSE IF ShlPanics(count) THEN [kind |-> "panic", val |-> p]
      ELSE IF ~NFitsInt(count) THEN [kind |-> "unmodelled", val |-> p]
      ELSE IF ZBitLen(p) + NToInt(count) > MaxBits THEN [kind |-> "unmodelled", val |-> p]
      ELSE [kind |-> "val", val |-> ZLsh(p, NToInt(count))]

\* p.Rsh(p, uint(q.Int64())): a count past the last bit leaves 0, or -1
Rsh(p, q) ==
  LET count == ShiftCount(q)
      n == IF NFitsInt(count) /\ NToInt(count) <= ZBitLen(p) THEN NToInt(count)
           ELSE ZBitLen(p) + 1
  IN  [kind |-> "val", val |-> ZRsh(p, n)]

\* p.Exp(p, q, nil)
Exp(p, q) ==
  IF q.neg \/ q.abs = <<>> THEN [kind |-> "val", val |-> ZOfInt(1)]
  ELSE IF p.abs = <<>> THEN [kind |-> "val", val |-> ZZero]
  ELSE IF p.abs = NOne THEN [kind |-> "val", val |-> ZMake(p.neg /\ NBit(q.abs, 0) = 1, NOne)]
  ELSE IF ~NFitsInt(q.abs) THEN [kind |-> "unmodelled", val |-> p]
  ELSE IF NToInt(q.abs) > MaxBits THEN [kind |-> "unmodelled", val |-> p]
  ELSE IF ZBitLen(p) * NToInt(q.abs) > MaxBits THEN [kind |-> "unmodelled", val |-> p]
  ELSE [kind |-> "val", val |-> ZExp(p, NToInt(q.abs))]

IntOps == {"%", "^", "<<", ">>", "&", "|"}

\* the integer operator applied to the truncated operands p and q
IntOp(op, p, q) ==
  CASE op = "%" -> IF q.abs = <<>> THEN [kind |-> "panic", val |-> p]
                   ELSE [kind |-> "val", val |-> ZMod(p, q)]
    [] op = "^" -> Exp(p, q)
    [] op = "<<" -> Lsh(p, q)
    [] op = ">>" -> Rsh(p, q)
    [] op = "&" -> [kind |-> "val", val |-> ZAnd(p, q)]
    [] op = "|" -> [kind |-> "val", val |-> ZOr(p, q)]

operation2(op, x, y, tbl) ==
  LET xv == Deref(tbl, x)
      yv == Deref(tbl, y)
      p == FInt(xv)
      q == FInt(yv)
      r == IntOp(op, p, q)
      log == << <<"operation2", op>> >>
  IN  CASE op = "+" -> Assign(FAdd(xv, yv), x, tbl, log)
        [] op = "-" -> Assign(FSub(xv, yv), x, tbl, log)
        [] op = "*" -> Assign(FMul(xv, yv), x, tbl, log)
        [] op = "/" -> Assign(FQuo(xv, yv), x, tbl, log)
        [] op \in IntOps ->
             IF p = Nil \/ q = Nil THEN RPanic("nil pointer dereference", tbl, log)
             ELSE IF r.kind = "panic" THEN RPanic("integer operation", tbl, log)
             ELSE IF r.kind = "unmodelled" THEN RUnmodelled(tbl, log)
             ELSE Assign(FSetInt(r.val), x, tbl, log)
        [] OTHER -> RErr("invalid op", tbl, log)

\* fmt.Sscan(e.Value, x) for the literals the scanner passes: Float.scan reads
\* the digits as one integer and divides by 5^k * 2^k for k fraction digits
ScanLiteral(value) ==
  LET isHex == At(value, 1) = "0" /\ At(value, 2) \in {"x", "X"}
      dots == {i \in 1..Len(value) : value[i] = "."}
      dot == IF dots = {} THEN Len(value) + 1 ELSE SetMin(dots)
      k == Len(value) - dot
      mant == NScan(SubSeq(value, 1, dot - 1) \o SubSeq(value, dot + 1, Len(value)), 10)
      raw == FFinite(FALSE, mant, 0 - k)
      pow5 == FFinite(FALSE, NExp(NOfInt(5), k), 0)
  IN  IF isHex THEN FRound(FALSE, NScan(SubSeq(value, 3, Len(value)), 16), 0, precision)
      ELSE IF mant = <<>> THEN FZero(FALSE)
      ELSE IF k <= 0 THEN FRound(FALSE, mant, 0, precision)
      ELSE FQuoFinite(raw, pow5, precision)

evalIdent(expr, tbl) ==
  IF expr.name \in DOMAIN tbl.tblIdent
  THEN RVal(tbl.tblIdent[expr.name], expr.name, tbl, << <<"evalIdent", expr.name>> >>)
  ELSE RErr("unknown ident", tbl, << <<"evalIdent", expr.name>> >>)

\* the square root of a machine-sized perfect square, -1 for any other number
IntSqrt(n) ==
  LET roots == {r \in 0..4096 : r * r = n}
  IN  IF roots = {} THEN -1 ELSE CHOOSE r \in roots : TRUE

\* whether v.Float64() neither overflows nor underflows
InDoubleRange(x) ==
  x.form = "finite" /\ x.mant # <<>>
  /\ NBitLen(x.mant) + x.exp < 1000 /\ NBitLen(x.mant) + x.exp > -1000

SqrtName == <<"s", "q", "r", "t">>
SinName == <<"s", "i", "n">>
CosName == <<"c", "o", "s">>
TanName == <<"t", "a", "n">>

\* z.SetFloat64(math.F(a)) for a, _ := v.Float64(): exact where the double
\* result is known exactly, "nan" where it is a NaN (SetFloat64 panics),
\* and "unmodelled" for every other argument
MathFunc(fn, x) ==
  LET n == IF FIsInt(x) /\ NFitsInt(FInt(x).abs) /\ NToInt(FInt(x).abs) < 4096 * 4096
           THEN IntSqrt(NToInt(FInt(x).abs)) ELSE -1
  IN  IF FIsZero(x) THEN (IF fn = CosName THEN FSetInt(ZOfInt(1)) ELSE x)
      ELSE IF x.form = "inf"
      THEN (IF fn = SqrtName /\ ~x.neg THEN x ELSE FNaN)
      ELSE IF ~InDoubleRange(x) THEN [FNaN EXCEPT !.form = "unmodelled"]
      ELSE IF fn = SqrtName /\ x.neg THEN FNaN
      ELSE IF fn = SqrtName /\ n >= 0 THEN FSetInt(ZOfInt(n))
      ELSE [FNaN EXCEPT !.form = "unmodelled"]

evalFunc(fn, args, tbl) ==
  LET z == MathFunc(fn, args[1])
      log == << <<"evalFunc", fn>> >>
  IN  IF fn \notin {SqrtName, SinName, CosName, TanName}
      THEN RErr("unknown call", tbl, log)
      ELSE IF z.form = "nan" THEN RPanic("ErrNaN", tbl, log)
      ELSE IF z.form = "unmodelled" THEN RUnmodelled(tbl, log)
      ELSE RVal(z, Fresh, tbl, log)

RECURSIVE evalExpr(_, _)
RECURSIVE evalArgs(_, _, _, _)

\* evalBinaryExpr evaluating both operands before it looks at either error
evalBinaryExprEager(expr, tbl) ==
  LET x == evalExpr(expr.X, tbl)
      y == evalExpr(expr.Y, x.tbl)
  IN  IF y.kind # "val" THEN Logged(x.log, y)
      ELSE IF x.kind # "val" THEN Logged(y.log, x)
      ELSE Logged(x.log \o y.log, operation2(expr.op, x, y, y.tbl))

evalBinaryExpr(expr, tbl) ==
  LET x == evalExpr(expr.X, tbl)
      y == evalExpr(expr.Y, x.tbl)
  IN  IF x.kind # "val" THEN x
      ELSE IF y.kind # "val" THEN Logged(x.log, y)
      ELSE Logged(x.log \o y.log, operation2(expr.op, x, y, y.tbl))

evalUnaryExpr(expr, tbl) ==
  LET x == evalExpr(expr.X, tbl)
  IN  IF x.kind # "val" THEN x
      ELSE Logged(x.log, operation1(expr.op, x, x.tbl))

evalUnit(expr, unit, tbl) ==
  LET x == evalExpr(expr, tbl)
      xv == Deref(x.tbl, x)
      known == Len(unit.name) = 1 /\ unit.name[1] \in DOMAIN tbl.units
      v == tbl.units[unit.name[1]]
      z == FSetInt(ZAbs(v))
      log == x.log \o << <<"evalUnit", unit.name>> >>
  IN  IF unit.t # "Ident" THEN RErr("invalid unit", tbl, <<>>)
      ELSE IF x.kind # "val" THEN x
      ELSE IF ~known THEN RErr("unknown unit", x.tbl, log)
      ELSE IF ~v.neg THEN Assign(FMul(xv, z), x, x.tbl, log)
      ELSE Assign(FQuo(xv, z), x, x.tbl, log)

\* the loop over expr.Args from the i-th on: each value narrowed by Float64
evalArgs(args, i, tbl, acc) ==
  LET v == evalExpr(args[i], tbl)
  IN  IF i > Len(args) THEN [kind |-> "val", args |-> acc, r |-> RVal(FNaN, Fresh, tbl, <<>>)]
      ELSE IF v.kind # "val" THEN [kind |-> v.kind, args |-> acc, r |-> v]
      ELSE LET rest == evalArgs(args, i + 1, v.tbl, Append(acc, Deref(v.tbl, v)))
           IN  [rest EXCEPT !.r = Logged(v.log, rest.r)]

evalCallExpr(expr, tbl) ==
  LET a == evalArgs(expr.Args, 1, tbl, <<>>)
  IN  IF Len(expr.Args) = 0 THEN RErr("no args", tbl, <<>>)
      ELSE IF expr.Fun.t = "Ident"
      THEN IF a.kind # "val" THEN a.r
           ELSE Logged(a.r.log, evalFunc(expr.Fun.name, a.args, a.r.tbl))
      ELSE IF expr.Fun.t = "BasicLit" THEN evalUnit(expr.Fun, expr.Args[1], tbl)
      ELSE RErr("invalid call", tbl, <<>>)

evalExpr(expr, tbl) ==
  LET log == << <<"evalExpr", expr.t>> >>
  IN  CASE expr.t = "ParenExpr" -> Logged(log, evalExpr(expr.X, tbl))
        [] expr.t = "BinaryExpr" -> Logged(log, evalBinaryExpr(expr, tbl))
        [] expr.t = "UnaryExpr" -> Logged(log, evalUnaryExpr(expr, tbl))
        [] expr.t = "BasicLit" -> RVal(ScanLiteral(expr.value), Fresh, tbl, log)
        [] expr.t = "Ident" -> Logged(log, evalIdent(expr, tbl))
        [] expr.t = "CallExpr" -> Logged(log, evalCallExpr(expr, tbl))
        [] expr.t = "TypeAssertExpr" -> Logged(log, evalUnit(expr.X, expr.Type, tbl))
        [] OTHER -> RErr("invalid expr", tbl, log)

(***************************************************************************)
(* answer and its formatting.                                              *)
(***************************************************************************)
RECURSIVE Concat(_, _, _)
\* the strings p[lo], ..., p[hi] joined in order
Concat(p, lo, hi) ==
  IF lo > hi THEN <<>>
  ELSE IF lo = hi THEN p[lo]
  ELSE LET mid == (lo + hi) \div 2
       IN  Concat(p, lo, mid) \o Concat(p, mid + 1, hi)

\* separater without the test for the sign
separaterSplit(num, sep, n) ==
  LET c(j) == LET i == Len(num) - j
              IN  IF i > 0 /\ i % n = 0 THEN <<num[j]>> \o sep ELSE <<num[j]>>
  IN  Concat([j \in 1..Len(num) |-> c(j)], 1, Len(num))

\* the loop of separater: the character i places from the right end gets sep
\* appended when i > 0, i % n = 0 and the character is not "-"
separater(num, sep, n) ==
  LET c(j) == LET i == Len(num) - j
              IN  IF i > 0 /\ i % n = 0 /\ num[j] # "-" THEN <<num[j]>> \o sep
                  ELSE <<num[j]>>
  IN  Concat([j \in 1..Len(num) |-> c(j)], 1, Len(num))

\* strconv.Itoa for a machine integer
IntText(n) == IF n < 0 THEN <<"-">> \o NText(NOfInt(0 - n), 10) ELSE NText(NOfInt(n), 10)

\* fmt.Sprint(ans) for a *big.Float.  "+Inf" and "-Inf" are the texts Go
\* prints; for a finite value Go prints the shortest decimal that identifies
\* it, and the model does not compute those digits: it spells the same value
\* as sign, hexadecimal mantissa and binary exponent, which identifies the
\* value just as well and is likewise a single string without separators.
Sprint(x) ==
  IF x.form = "inf" THEN (IF x.neg THEN <<"-", "I", "n", "f">> ELSE <<"+", "I", "n", "f">>)
  ELSE IF FIsZero(x) THEN (IF x.neg THEN <<"-", "0">> ELSE <<"0">>)
  ELSE (IF x.neg THEN <<"-">> ELSE <<>>) \o <<"0", "x">> \o NText(x.mant, 16)
       \o <<"p">> \o IntText(x.exp)

\* IntStrings without the wrap to 32 or 64 bits: a negative integer always
\* shown as a minus sign and its absolute value
IntStringsSigned(v) ==
  LET minus == IF v.neg THEN <<"-">> ELSE <<>>
  IN  << separater(ZText(v, 10), <<",">>, 3),
         minus \o <<"0", "x">> \o separater(ZText(ZAbs(v), 16), <<"_">>, 4),
         minus \o <<"0", "b">> \o separater(ZText(ZAbs(v), 2), <<"_">>, 8) >>

\* the three display strings of an integer result v
IntStrings(v) ==
  LET wrap32 == v.neg /\ ZBitLen(v) <= 32
      wrap64 == v.neg /\ ZBitLen(v) > 32 /\ ZBitLen(v) <= 64
      minus == IF v.neg /\ ZBitLen(v) > 64 THEN <<"-">> ELSE <<>>
      u == IF wrap32 THEN ZAdd(ZMake(FALSE, NShl(NOne, 32)), v)
           ELSE IF wrap64 THEN ZAdd(ZMake(FALSE, NShl(NOne, 64)), v)
           ELSE ZAbs(v)
  IN  << separater(ZText(v, 10), <<",">>, 3),
         minus \o <<"0", "x">> \o separater(ZText(u, 16), <<"_">>, 4),
         minus \o <<"0", "b">> \o separater(ZText(u, 2), <<"_">>, 8) >>

\* what one call of answer comes to: kind "ok" (s, nil), "err" (s, err),
\* "panic" when the call does not return, "unmodelled" when the line leaves
\* the part of Go the model computes
Outcome(kind, s, err, ans, tbl, log) ==
  [kind |-> kind, s |-> s, err |-> err, ans |-> ans, tbl |-> tbl, log |-> log]

\* answer from "v, _ := ans.Int(nil)" on: ans, the table and the log as
\* evalExpr left them
answerValue(ans, tbl, log) ==
  IF FIsInt(ans) /\ ZBitLen(FInt(ans)) <= showmaxbits
  THEN Outcome("ok", IntStrings(FInt(ans)), "", ans, tbl, log)
  ELSE Outcome("ok", <<Sprint(ans)>>, "", ans, tbl, log)

\* answer from the test of evalExpr's error on: r is what evalExpr returned
answerEvaluated(r) ==
  IF r.kind = "unmodelled" THEN Outcome("unmodelled", <<>>, "", FNaN, r.tbl, r.log)
  ELSE IF r.kind = "panic" THEN Outcome("panic", <<>>, r.err, FNaN, r.tbl, r.log)
  ELSE IF r.kind = "err" THEN Outcome("err", <<>>, r.err, FNaN, r.tbl, r.log)
  ELSE answerValue(Deref(r.tbl, r), r.tbl, r.log)

\* answer from the test of the parser's error on: tree is what ParseExpr
\* returned
answerParsed(tree, tbl) ==
  IF tree.kind = "unmodelled" THEN Outcome("unmodelled", <<>>, "", FNaN, tbl, <<>>)
  ELSE IF tree.kind = "err" THEN Outcome("err", <<>>, "syntax error", FNaN, tbl, <<>>)
  ELSE answerEvaluated(evalExpr(tree.tree, tbl))

answer(line, tbl) == answerParsed(ParseExpr(preconv(line)), tbl)

(***************************************************************************)
(* The lines typed at the prompt.  A line is a sequence of characters.     *)
(***************************************************************************)
\* numerators of the lines a/0
Numerators ==
  { <<"0">>, <<"5">>, <<"-", "5">>, <<"1", "K">>, <<"7", ".", "5">>,
    <<"(", "2", "+", "3", ")">>, <<"0", "x", "1", "0">> }

DivZeroLines == {a \o <<"/", "0">> : a \in Numerators}

\* integer literals in front of a unit suffix
DecimalLiterals ==
  { <<"1">>, <<"1", "2">>, <<"1", "0", "0", "0">> }

HexLiterals ==
  { <<"0", "x", "1", "0">>, <<"0", "X", "A">> }

UnitLines == {N \o <<u>> : N \in DecimalLiterals \cup HexLiterals, u \in UnitChars}

\* negative and non-negative integers around the 32- and 64-bit boundaries
ShiftCounts ==
  { <<"3", "1">>, <<"3", "2">>, <<"4", "0">>, <<"6", "3">>, <<"6", "4">>,
    <<"7", "0">> }

Adjustments ==
  { <<>>, <<"+", "1">>, <<"-", "1">> }

SignedLines ==
  {sign \o <<"1", "<", "<">> \o k \o d :
     sign \in {<<>>, <<"-">>}, k \in ShiftCounts, d \in Adjustments}

\* operands of the integer-only operators: small, fractional, and as wide as
\* the working precision and one bit wider
WideOdd == <<"3", "4", "0", "2", "8", "2", "3", "6", "6", "9", "2", "0", "9", "3", "8", "4", "6", "3", "4", "6", "3", "3", "7", "4", "6", "0", "7", "4", "3", "1", "7", "6", "8", "2", "1", "1", "4", "5", "7">>
WideMax == <<"3", "4", "0", "2", "8", "2", "3", "6", "6", "9", "2", "0", "9", "3", "8", "4", "6", "3", "4", "6", "3", "3", "7", "4", "6", "0", "7", "4", "3", "1", "7", "6", "8", "2", "1", "1", "4", "5", "5">>

IntOperands ==
  { <<"0">>, <<"5">>, <<"-", "7">>, <<"-", "1">>, <<"7", ".", "5">>,
    <<"-", "2", ".", "5">> } \cup {WideOdd, WideMax}

IntOpLines == {a \o <<op>> \o b : a \in IntOperands, op \in {"%", "&", "|"}, b \in IntOperands}

\* lines with names in them
NameLines ==
  { <<"s", "q", "r", "t", "(", "1", "6", ")">>,
    <<"s", "q", "r", "t", "(", "0", ")">>, <<"s", "i", "n", "(", "0", ")">>,
    <<"c", "o", "s", "(", "0", ")">>, <<"t", "a", "n", "(", "0", ")">>,
    <<"t", "a", "n", "(", "1", ")">>,
    <<"s", "q", "r", "t", "(", "-", "1", ")">>,
    <<"s", "q", "r", "t", "(", "5", "/", "0", ")">>,
    <<"s", "i", "n", "(", "5", "/", "0", ")">>,
    <<"s", "q", "r", "t", "(", ")">>, <<"f", "o", "o", "(", "1", ")">>,
    <<"u", "n", "k", "n", "o", "w", "n", "v", "a", "r">>,
    <<"u", "n", "k", "n", "o", "w", "n", "v", "a", "r", "+", "1">>,
    <<"1", "+", "u", "n", "k", "n", "o", "w", "n", "v", "a", "r">>,
    <<"x", "+", "y">>, <<"-", "x">>, <<"x", "+", "1">>,
    <<"x", "*", "2", "+", "x">>, <<"s", "q", "r", "t", "(", ")", "+", "x">>,
    <<"1", ".", "(", "2", ")", "+", "x">>, <<"1", "+", "x", "+">>,
    <<"u", "n", "k", "n", "o", "w", "n", "v", "a", "r", "+", "1", "%", "0">>,
    <<"1", "%", "0", "+", "x">>, <<"f", "o", "o", "(", "1", ")", "+", "x">>,
    <<"x", "+", "f", "o", "o", "(", "1", ")">>, <<"1", "<", "2", "+", "x">>,
    <<"1", ".", "(", "x", ")">>, <<"x", ".", "y">>, <<"a", "n", "+", "1">>,
    <<"2", "*", "s", "q", "r", "t", "(", "1", "6", ")">> }

\* lines that end in a value, an error or a panic in other ways
OtherLines ==
  { <<>>, <<"2", "+", "2">>, <<"1", "/", "2">>, <<"-", "1">>, <<"-", "5">>,
    <<"-", "2", "5", "5">>, <<"0", ".", "1", "*", "1", "0">>,
    <<"1", "<", "<", "2", "9", "9">>, <<"1", "<", "<", "3", "0", "0">>,
    <<"-", "1", "<", "<", "2", "9", "9">>,
    <<"-", "1", "<", "<", "3", "0", "0">>, <<"2", "*", "*", "1", "0">>,
    <<"2", "*", "*", "0", ".", "5">>, <<"~", "5">>, <<"!", "0">>,
    <<"p", "i">>, <<"1", "+">>, <<"(", "1", "+", "2">>,
    <<"1", ".", "(", "2", ")">>, <<"(", "1", "+", "2", ")", "K">>,
    <<"1", " ", "K">>, <<"2", ".", "5", "u">>, <<"1", " ", "<", " ", "2">>,
    <<"^", "1">>, <<"1", " ", "&", "^", " ", "2">>, <<"0", "8">>,
    <<"0", "8", "K">>, <<"0", "1", "0">>, <<"0", "/", "0">>,
    <<"0", "/", "5">>, <<"-", "5", "/", "0", "+", "5", "/", "0">>,
    <<"5", "/", "0", "*", "0">>, <<"5", "/", "(", "1", "-", "1", ")">>,
    <<"5", "/", "0", ".", "0">>, <<"1", "%", "0">>,
    <<"5", "%", "(", "1", "-", "1", ")">>, <<"5", "%", "0", ".", "5">>,
    <<"5", "/", "0", "%", "2">>, <<"5", "&", "(", "1", "/", "0", ")">>,
    <<"!", "(", "5", "/", "0", ")">>, <<"1", "<", "<", "-", "1">>,
    <<"0", "<", "<", "-", "1">>, <<"1", ">", ">", "-", "1">>,
    <<"-", "1", ">", ">", "7", "0">>, <<"5", ">", ">", "1">>,
    <<"1", "<", "<", "1", "<", "<", "6", "4">> }

Lines == DivZeroLines \cup UnitLines \cup SignedLines \cup IntOpLines \cup NameLines \cup OtherLines

(***************************************************************************)
(* The process.  main sits in rl.Readline(); readline calls keyListener on *)
(* every keystroke with the edited line, and returns the line on Enter.    *)
(* A panic in either path is not recovered and ends the process.           *)
(*   pc       where the process is                                        *)
(*   line     the line handed to keyListener or returned by Readline       *)
(*   caller   who made the call of answer recorded in res                  *)
(*   res      the outcome of that call, NoCall while there is none         *)
(*   calls    how many calls of answer were made so far, counted up to     *)
(*            MaxCalls                                                     *)
(*   tblIdent, units   the two package-level maps                         *)
(*   sepCall  one call of separater on its own: arguments and result       *)
(***************************************************************************)
VARIABLES pc, line, caller, res, calls, tblIdent, units, sepCall

vars == <<pc, line, caller, res, calls, tblIdent, units, sepCall>>

MaxCalls == 2

Tables == [tblIdent |-> tblIdent0, units |-> units0]

NoCall == Outcome("none", <<>>, "", FNaN, Tables, <<>>)

NoSep == [num |-> <<>>, sep |-> <<>>, n |-> 1, r |-> <<>>, done |-> FALSE]

Init ==
  /\ pc = "Readline"
  /\ line = <<>>
  /\ caller = "none"
  /\ res = NoCall
  /\ calls = 0
  /\ tblIdent = tblIdent0
  /\ units = units0
  /\ sepCall = NoSep

\* the end of a call of answer made by who with outcome r: the process goes
\* back into Readline when the call returns, down when it panics
Answered(who, r) ==
  /\ res' = [r EXCEPT !.tbl = Tables]
  /\ caller' = who
  /\ calls' = IF calls < MaxCalls THEN calls + 1 ELSE calls
  /\ tblIdent' = r.tbl.tblIdent
  /\ units' = r.tbl.units
  /\ pc' = IF r.kind = "panic" THEN "crashed" ELSE "Readline"
  /\ UNCHANGED <<line, sepCall>>

CallAnswer(who) == Answered(who, answer(line, [tblIdent |-> tblIdent, units |-> units]))

\* a keystroke other than Enter, Ctrl-D or 0 leaves l in the edit buffer and
\* readline calls the listener with it
Key(l) ==
  /\ pc = "Readline"
  /\ pc' = "keyListener"
  /\ line' = l
  /\ caller' = "none"
  /\ res' = NoCall
  /\ UNCHANGED <<calls, tblIdent, units, sepCall>>

\* keyListener's default branch: the live preview of the line
keyListener ==
  /\ pc = "keyListener"
  /\ CallAnswer("keyListener")

\* Enter: rl.Readline() returns l to main
Readline(l) ==
  /\ pc = "Readline"
  /\ pc' = "main"
  /\ line' = l
  /\ caller' = "none"
  /\ res' = NoCall
  /\ UNCHANGED <<calls, tblIdent, units, sepCall>>

\* the body of main's loop: answer(line), then the error or the answer is
\* printed and the loop goes round
main ==
  /\ pc = "main"
  /\ CallAnswer("main")

\* Ctrl-D: rl.Readline() returns an error and main leaves the loop
EndOfInput ==
  /\ pc = "Readline"
  /\ pc' = "exit"
  /\ caller' = "none"
  /\ res' = NoCall
  /\ UNCHANGED <<line, calls, tblIdent, units, sepCall>>

Next ==
  \/ \E l \in Lines : Key(l)
  \/ keyListener
  \/ \E l \in Lines : Readline(l)
  \/ main
  \/ EndOfInput

Spec == Init /\ [][Next]_vars

(***************************************************************************)
(* separater on its own: the arguments are drawn from digit strings of     *)
(* every length up to MaxLen, with and without a sign, the separators and  *)
(* group sizes answer uses, and the call is one step.                      *)
(***************************************************************************)
MaxLen == 20

\* the digit string of length len whose first digit is first + 1 (mod 10)
DigitString(len, first) == [j \in 1..len |-> DigitOf((first + j) % 10)]

DigitStrings == {DigitString(len, first) : len \in 1..MaxLen, first \in 0..9}

InitSep ==
  /\ pc = "separater"
  /\ line = <<>>
  /\ caller = "none"
  /\ res = NoCall
  /\ calls = 0
  /\ tblIdent = tblIdent0
  /\ units = units0
  /\ \E d \in DigitStrings, sign \in {<<>>, <<"-">>}, c \in {",", "_"}, k \in {3, 4, 8} :
       sepCall = [num |-> sign \o d, sep |-> <<c>>, n |-> k, r |-> <<>>, done |-> FALSE]

Separate ==
  /\ pc = "separater"
  /\ ~sepCall.done
  /\ sepCall' = [sepCall EXCEPT !.r = separater(sepCall.num, sepCall.sep, sepCall.n),
                                !.done = TRUE]
  /\ UNCHANGED <<pc, line, caller, res, calls, tblIdent, units>>

NextSep == Separate

SpecSep == InitSep /\ [][NextSep]_vars

(***************************************************************************)
(* Properties.  A call of answer has ended when res.kind is not "none".    *)
(***************************************************************************)

\* C1: every line a/0, for each numerator a (0 among them), ends the call of
\* answer with an error and no display strings, never with a numeric result
C1_DivisionByZero ==
  line \in DivZeroLines /\ res.kind # "none" => res.kind = "err" /\ res.s = <<>>

\* C2: every call of answer returns, with strings and no error or with an
\* error and no strings, and the process is back in Readline for the next line
C2_ErrorsReturned ==
  res.kind # "none" =>
    /\ pc = "Readline"
    /\ \/ res.kind = "ok" /\ res.s # <<>> /\ res.err = ""
       \/ res.kind = "err" /\ res.s = <<>> /\ res.err # ""

\* what answer makes of the line N * m, or N / d for a unit whose table entry
\* is -d
UnitProduct(N, u) ==
  answer(N \o (IF units0[u].neg THEN <<"/">> ELSE <<"*">>) \o NText(units0[u].abs, 10), Tables)

\* C3: for every integer literal N and every unit suffix u, the line N u
\* evaluates to the same value as N * m, or as N / d when the unit's entry is -d
C3_UnitEquivalence ==
  \A N \in DecimalLiterals \cup HexLiterals, u \in UnitChars :
    line = N \o <<u>> /\ res.kind # "none" =>
      /\ UnitProduct(N, u).kind = "ok"
      /\ res.kind = "ok"
      /\ res.ans = UnitProduct(N, u).ans

\* the number a string of hexadecimal (base 16) or binary (base 2) digits
\* spells, eight bits to a limb
DigitsValue(s, base) ==
  LET digit(j) == IF j > Len(s) THEN 0 ELSE DigitVal(s[Len(s) - j + 1])
      limb(i) ==
        IF base = 16 THEN digit(2 * i - 1) + 16 * digit(2 * i)
        ELSE digit(8 * i - 7) + 2 * digit(8 * i - 6) + 4 * digit(8 * i - 5)
             + 8 * digit(8 * i - 4) + 16 * digit(8 * i - 3) + 32 * digit(8 * i - 2)
             + 64 * digit(8 * i - 1) + 128 * digit(8 * i)
      perLimb == IF base = 16 THEN 2 ELSE 8
  IN  NNorm([i \in 1..((Len(s) + perLimb - 1) \div perLimb) |-> limb(i)])

\* a display string in base 16 or 2 read back: whether it starts with a minus
\* sign, its prefix, and the number its digits spell once the "_" are removed
Spelled(str, base) ==
  LET minus == Len(str) > 0 /\ str[1] = "-"
      from == IF minus THEN 2 ELSE 1
  IN  [minus |-> minus,
       prefix |-> SubSeq(str, from, from + 1),
       abs |-> DigitsValue(SelectSeq(SubSeq(str, from + 2, Len(str)), LAMBDA c : c # "_"), base)]

\* C4's rule for the number the hex and binary strings show for the integer v
Shown(v) ==
  IF ~v.neg THEN [minus |-> FALSE, abs |-> v.abs]
  ELSE IF NBitLen(v.abs) <= 32 THEN [minus |-> FALSE, abs |-> NSub(NExp(NOfInt(2), 32), v.abs)]
  ELSE IF NBitLen(v.abs) <= 64 THEN [minus |-> FALSE, abs |-> NSub(NExp(NOfInt(2), 64), v.abs)]
  ELSE [minus |-> TRUE, abs |-> v.abs]

\* C4: the hex and binary strings of an integer result v show v itself when
\* v >= 0, v + 2^32 when v < 0 has at most 32 bits, v + 2^64 when it has 33 to
\* 64 bits, and a minus sign before the prefix and |v| when it has more; -1
\* shows as 0xffff_ffff and 32 one-bits, -1 << 40 in the 64-bit form
C4_TwosComplement ==
  res.kind = "ok" /\ Len(res.s) = 3 =>
    LET v == FInt(res.ans)
        hex == Spelled(res.s[2], 16)
        bin == Spelled(res.s[3], 2)
    IN  /\ hex = [minus |-> Shown(v).minus, prefix |-> <<"0", "x">>, abs |-> Shown(v).abs]
        /\ bin = [minus |-> Shown(v).minus, prefix |-> <<"0", "b">>, abs |-> Shown(v).abs]
        /\ line = <<"-", "1">> =>
             /\ res.s[2] = <<"0", "x", "f", "f", "f", "f", "_", "f", "f", "f", "f">>
             /\ res.s[3] = <<"0", "b", "1", "1", "1", "1", "1", "1", "1", "1", "_", "1", "1", "1", "1", "1", "1", "1", "1", "_", "1", "1", "1", "1", "1", "1", "1", "1", "_", "1", "1", "1", "1", "1", "1", "1", "1">>
        /\ line = <<"-", "1", "<", "<", "4", "0">> => res.s[2] = <<"0", "x", "f", "f", "f", "f", "_", "f", "f", "0", "0", "_", "0", "0", "0", "0", "_", "0", "0", "0", "0">>

\* main has answered -1<<40 in the 64-bit form, -1<<70 with a minus sign
C4_Witness64 ==
  /\ caller = "main"
  /\ res.kind = "ok"
  /\ line = <<"-", "1", "<", "<", "4", "0">>
  /\ res.s[2] = <<"0", "x", "f", "f", "f", "f", "_", "f", "f", "0", "0", "_", "0", "0", "0", "0", "_", "0", "0", "0", "0">>
  /\ res.s[1] = <<"-", "1", ",", "0", "9", "9", ",", "5", "1", "1", ",", "6", "2", "7", ",", "7", "7", "6">>

\* C5: for a digit string num with an optional leading "-" and n in {3, 4, 8},
\* separater's output without its separators is num; counting from the right
\* end of the output every (n+1)-th character is a separator and no other is,
\* so each group after the first has n digits and the first has 1 to n; the
\* output does not start with a separator and none follows the sign
C5_Separater ==
  sepCall.done =>
    LET num == sepCall.num
        c == sepCall.sep[1]
        sign == IF num[1] = "-" THEN 1 ELSE 0
        body == SubSeq(sepCall.r, sign + 1, Len(sepCall.r))
    IN  /\ SelectSeq(sepCall.r, LAMBDA ch : ch # c) = num
        /\ SubSeq(sepCall.r, 1, sign) = SubSeq(num, 1, sign)
        /\ body[1] # c
        /\ \A k \in 1..Len(body) :
             (body[k] = c) <=> ((Len(body) - k + 1) % (sepCall.n + 1) = 0)

\* a signed string of 16 digits was grouped by 8: two full groups, no
\* separator after the sign
C5_WitnessSigned ==
  /\ sepCall.done
  /\ sepCall.num = <<"-", "1", "2", "3", "4", "5", "6", "7", "8", "9", "0", "1", "2", "3", "4", "5", "6">>
  /\ sepCall.n = 8
  /\ sepCall.r = <<"-", "1", "2", "3", "4", "5", "6", "7", "8", "_", "9", "0", "1", "2", "3", "4", "5", "6">>

\* the integer an operand text denotes, its fraction dropped
OperandInt(a) ==
  LET neg == a[1] = "-"
      digits == SubSeq(a, IF neg THEN 2 ELSE 1, Len(a))
      dots == {i \in 1..Len(digits) : digits[i] = "."}
      whole == IF dots = {} THEN digits ELSE SubSeq(digits, 1, SetMin(dots) - 1)
  IN  ZMake(neg, NScan(whole, 10))

RECURSIVE BitAnd(_, _)
\* a AND b on machine integers, negative numbers in two's complement
BitAnd(a, b) ==
  IF a = 0 \/ b = 0 THEN 0
  ELSE IF a = -1 THEN b
  ELSE IF b = -1 THEN a
  ELSE 2 * BitAnd(a \div 2, b \div 2) + (a % 2) * (b % 2)

RECURSIVE BitOr(_, _)
\* a OR b on machine integers, negative numbers in two's complement
BitOr(a, b) ==
  IF a = 0 THEN b
  ELSE IF b = 0 THEN a
  ELSE IF a = -1 \/ b = -1 THEN -1
  ELSE 2 * BitOr(a \div 2, b \div 2) + (IF a % 2 = 1 \/ b % 2 = 1 THEN 1 ELSE 0)

\* the machine integer of a small big integer
SmallInt(z) == IF z.neg THEN 0 - NToInt(z.abs) ELSE NToInt(z.abs)

\* the integer a op b: on machine integers when both operands are small,
\* on the exact big integers otherwise
IntegerResult(op, a, b) ==
  IF NFitsInt(a.abs) /\ NFitsInt(b.abs)
  THEN LET x == SmallInt(a)
           y == SmallInt(b)
       IN  CASE op = "%" -> ZOfInt(x % (IF y < 0 THEN 0 - y ELSE y))
             [] op = "&" -> ZOfInt(BitAnd(x, y))
             [] op = "|" -> ZOfInt(BitOr(x, y))
  ELSE CASE op = "%" -> ZMod(a, b)
         [] op = "&" -> ZAnd(a, b)
         [] op = "|" -> ZOr(a, b)

\* the line a op b has been answered with the integer a op b of the operands
\* truncated toward zero
IntegerOpExact(a, op, b) ==
  /\ res.kind = "ok"
  /\ FIsInt(res.ans)
  /\ FInt(res.ans) = IntegerResult(op, OperandInt(a), OperandInt(b))
  /\ Len(res.s) = 3
  /\ res.s[1] = separater(ZText(IntegerResult(op, OperandInt(a), OperandInt(b)), 10), <<",">>, 3)

\* C6 as stated: for all integers a and b with b # 0, the lines a % b, a & b
\* and a | b give the exact integer result, fractional operands truncated
C6_AllIntegers ==
  \A a \in IntOperands, op \in {"%", "&", "|"}, b \in IntOperands :
    line = a \o <<op>> \o b /\ res.kind # "none" /\ OperandInt(b).abs # <<>> =>
      IntegerOpExact(a, op, b)

\* C6 amended: for all integers a and b with b # 0 that have at most 128 bits,
\* the working precision, the lines a % b, a & b and a | b give the exact
\* integer result (modulus in 0..|b|-1, two's-complement AND and OR), with a
\* fractional operand truncated toward zero
C6_IntegersInPrecision ==
  \A a \in IntOperands, op \in {"%", "&", "|"}, b \in IntOperands :
    /\ line = a \o <<op>> \o b
    /\ res.kind # "none"
    /\ OperandInt(b).abs # <<>>
    /\ NBitLen(OperandInt(a).abs) <= 128
    /\ NBitLen(OperandInt(b).abs) <= 128
    => IntegerOpExact(a, op, b)

\* main has answered 2^128 - 1 & -7, both operands as wide as the precision
C6_WitnessWide ==
  /\ caller = "main"
  /\ res.kind = "ok"
  /\ line = WideMax \o <<"&", "-", "7">>
  /\ res.s[1] = <<"3", "4", "0", ",", "2", "8", "2", ",", "3", "6", "6", ",", "9", "2", "0", ",", "9", "3", "8", ",", "4", "6", "3", ",", "4", "6", "3", ",", "3", "7", "4", ",", "6", "0", "7", ",", "4", "3", "1", ",", "7", "6", "8", ",", "2", "1", "1", ",", "4", "4", "9">>

\* C7: a call of answer that returns gives no strings and an error when
\* parsing or evaluation failed; three strings (grouped decimal, 0x hex, 0b
\* binary) for an integer of at most 300 bits; one string without separators
\* for any other value; no other length occurs
C7_Shape ==
  res.kind \in {"ok", "err"} =>
    LET small == FIsInt(res.ans) /\ NBitLen(FInt(res.ans).abs) <= 300
    IN  /\ Len(res.s) \in {0, 1, 3}
        /\ res.kind = "err" => res.s = <<>> /\ res.err # ""
        /\ res.kind = "ok" => res.err = ""
        /\ res.kind = "ok" /\ small =>
             /\ Len(res.s) = 3
             /\ \A i \in 1..Len(res.s[1]) : res.s[1][i] \in Digits \cup {",", "-"}
             /\ Spelled(res.s[2], 16).prefix = <<"0", "x">>
             /\ Spelled(res.s[3], 2).prefix = <<"0", "b">>
        /\ res.kind = "ok" /\ ~small =>
             /\ Len(res.s) = 1
             /\ \A i \in 1..Len(res.s[1]) : res.s[1][i] \notin {",", "_"}

\* main has answered 1<<300, an integer of 301 bits, with a single string
C7_WitnessWide ==
  /\ caller = "main"
  /\ res.kind = "ok"
  /\ line = <<"1", "<", "<", "3", "0", "0">>
  /\ FIsInt(res.ans)
  /\ Len(res.s) = 1

\* C8: after any sequence of calls of answer, from main and from keyListener,
\* the identifier table and the unit table are what they were at the start,
\* and the outcome of the last call is the outcome answer has on that line
\* as the first line evaluated
C8_NoPersistentState ==
  /\ tblIdent = tblIdent0
  /\ units = units0
  /\ res.kind # "none" => res = [answer(line, Tables) EXCEPT !.tbl = Tables]

\* main has answered -1<<40, whose operands are overwritten in place, after
\* earlier calls of answer
C8_WitnessLaterCall ==
  /\ calls = MaxCalls
  /\ caller = "main"
  /\ res.kind = "ok"
  /\ line = <<"-", "1", "<", "<", "4", "0">>
  /\ tblIdent = tblIdent0

BuiltinNames == {SqrtName, SinName, CosName, TanName}

\* C9: a line that calls sqrt, sin, cos or tan comes out of preconv with the
\* name's characters unchanged and the call reaches evalFunc under that name
C9_NamesUntouched ==
  \A fn \in BuiltinNames, a \in {<<"0">>, <<"1">>, <<"1", "6">>} :
    line = fn \o <<"(">> \o a \o <<")">> /\ res.kind # "none" =>
      /\ preconv(line) = line
      /\ \E i \in DOMAIN res.log : res.log[i] = <<"evalFunc", fn>>

\* the two operands of the line's binary expression evaluated on their own
LeftOperand == evalExpr(ParseExpr(preconv(line)).tree.X, Tables)
RightOperand == evalExpr(ParseExpr(preconv(line)).tree.Y, Tables)

\* the line is a binary expression and the call of answer on it has ended
BinaryAnswered ==
  /\ res.kind # "none"
  /\ ParseExpr(preconv(line)).kind = "ok"
  /\ ParseExpr(preconv(line)).tree.t = "BinaryExpr"

\* a failed left operand's error is the result and nothing was evaluated after
\* it; else a failed right operand's error is the result and no operator was
\* applied
FailFast ==
  LET head == << <<"evalExpr", "BinaryExpr">> >>
  IN  /\ LeftOperand.kind = "err" =>
           /\ res.kind = "err"
           /\ res.err = LeftOperand.err
           /\ res.log = head \o LeftOperand.log
      /\ LeftOperand.kind = "val" /\ RightOperand.kind = "err" =>
           /\ res.kind = "err"
           /\ res.err = RightOperand.err
           /\ res.log = head \o LeftOperand.log \o RightOperand.log

\* C10 as stated: evalBinaryExpr is fail-fast, and a bare identifier as either
\* operand makes the expression fail with the unknown-identifier error
C10_AnyIdentOperand ==
  BinaryAnswered =>
    /\ FailFast
    /\ LET tree == ParseExpr(preconv(line)).tree
       IN  tree.X.t = "Ident" \/ tree.Y.t = "Ident" =>
             res.kind = "err" /\ res.err = "unknown ident"

\* C10 amended: evalBinaryExpr is fail-fast; a bare identifier as the left
\* operand, or as the right operand when the left operand evaluates to a
\* value, makes the expression fail with the unknown-identifier error
C10_FailFast ==
  BinaryAnswered =>
    /\ FailFast
    /\ LET tree == ParseExpr(preconv(line)).tree
       IN  tree.X.t = "Ident" \/ (tree.Y.t = "Ident" /\ LeftOperand.kind = "val") =>
             res.kind = "err" /\ res.err = "unknown ident"

\* main has answered unknownvar+1%0 with the left operand's error: 1%0, which
\* panics when evaluated, was not evaluated
C10_WitnessLeftFails ==
  /\ caller = "main"
  /\ line = <<"u", "n", "k", "n", "o", "w", "n", "v", "a", "r", "+", "1", "%", "0">>
  /\ res.kind = "err"
  /\ res.err = "unknown ident"
  /\ RightOperand.kind = "panic"



\* operands and counts of the lines a << n and a >> n among Lines
ShiftOperands == { <<"0">>, <<"1">>, <<"-", "1">>, <<"5">> }
ShiftAmounts == ShiftCounts \cup { <<"1">>, <<"2", "9", "9">>, <<"3", "0", "0">>, <<"-", "1">> }

\* the natural number 2^n written out limb by limb
TwoToThe(n) == [i \in 1..(n \div 8 + 1) |-> IF i = n \div 8 + 1 THEN 2 ^ (n % 8) ELSE 0]

\* a * 2^n for <<, floor(a / 2^n) for >>, by multiplication and division
ShiftResult(op, a, n) ==
  LET d == NDivMod(a.abs, TwoToThe(n))
  IN  IF op = <<"<", "<">> THEN ZMake(a.neg, NMul(TwoToThe(n), a.abs))
      ELSE IF a.neg /\ d.r # <<>> THEN ZMake(TRUE, NAdd(d.q, NOne))
      ELSE ZMake(a.neg, d.q)

\* C11: a line a << n or a >> n always completes with a value or an error,
\* also when n is negative or too large for the native count; for n >= 0 in
\* range the value is a * 2^n, respectively floor(a / 2^n)
C11_ShiftCompletes ==
  \A a \in ShiftOperands, op \in {<<"<", "<">>, <<">", ">">>}, n \in ShiftAmounts :
    line = a \o op \o n /\ res.kind # "none" =>
      /\ res.kind \in {"ok", "err"}
      /\ ~OperandInt(n).neg =>
           /\ res.kind = "ok"
           /\ FInt(res.ans) = ShiftResult(op, OperandInt(a), SmallInt(OperandInt(n)))

====
